---------------------------- MODULE Spec2Model ----------------------------
(***************************************************************************)
(* A model of simple_plot.py: the date parser, the tick formatter, the     *)
(* chart renderer, the request validator and the lambda handler with its   *)
(* object store and notification dispatch.                                 *)
(*                                                                         *)
(* Text is a sequence of one-character strings, so that parsing and        *)
(* formatting are computed character by character.  A point in time is a   *)
(* record [Y, m, d, H, M, S]; date2num is modelled in whole seconds        *)
(* (86400 times matplotlib's float day number): the x-values carry whole   *)
(* seconds, and num2date rounds away the few microseconds a float day      *)
(* number can be off by.                                                   *)
(***************************************************************************)
EXTENDS Integers, Sequences, FiniteSets, TLC

(***************************************************************************)
(* Bounds of the model.                                                    *)
(***************************************************************************)
\* longest series built freely from the sample x-values
MaxLen == 3
\* longest series of consecutive well-formed entries (tick stride cases)
MaxLong == 11
\* lambda_handler invocations followed in one behaviour
MaxInvocations == 3

(***************************************************************************)
(* Characters and text.                                                    *)
(***************************************************************************)
Digit == {"0", "1", "2", "3", "4", "5", "6", "7", "8", "9"}
Digit19 == Digit \ {"0"}
Whitespace == {" ", "\t"}

\* the characters of the model in code-point order (str comparison, S3 key order)
Alphabet ==
  << "\t", " ", "-", ".", "/", "0", "1", "2", "3", "4", "5", "6", "7", "8", "9",
     ":", "A", "B", "a", "b", "d", "e", "g", "k", "n", "o", "p", "t" >>

Ord(c) == CHOOSE i \in 1..Len(Alphabet) : Alphabet[i] = c

DigitVal(c) == Ord(c) - Ord("0")

DigitChar(n) == Alphabet[Ord("0") + n]

\* int(s) for a run of digits, leading blanks skipped as int() does
RECURSIVE ToInt(_)
ToInt(s) ==
  IF s = <<>> THEN 0
  ELSE IF s[Len(s)] \in Whitespace THEN ToInt(SubSeq(s, 1, Len(s) - 1))
  ELSE 10 * ToInt(SubSeq(s, 1, Len(s) - 1)) + DigitVal(s[Len(s)])

\* str(n) for n >= 0
RECURSIVE ToStr(_)
ToStr(n) ==
  IF n < 10 THEN << DigitChar(n) >>
  ELSE ToStr(n \div 10) \o << DigitChar(n % 10) >>

\* "%02d" % n
Pad2(n) == IF n < 10 THEN << "0" >> \o ToStr(n) ELSE ToStr(n)

(***************************************************************************)
(* datetime.datetime.strptime: the format is compiled to a pattern, the    *)
(* pattern is matched at the start of the text with ordered alternatives   *)
(* and backtracking, the whole text must be consumed, and the fields must  *)
(* name a real date and time.  Every failure is a ValueError, except a     *)
(* non-string argument, which is a TypeError.                              *)
(***************************************************************************)
FMT_DATETIME ==
  << "%", "Y", "-", "%", "m", "-", "%", "d", " ",
     "%", "H", ":", "%", "M", ":", "%", "S" >>

FMT_DATE == << "%", "Y", "-", "%", "m", "-", "%", "d" >>

\* the alternatives of a directive, in the order the pattern tries them
DirectiveAlts(c) ==
  CASE c = "Y" -> << << Digit, Digit, Digit, Digit >> >>
    [] c = "m" -> << << {"1"}, {"0", "1", "2"} >>, << {"0"}, Digit19 >>, << Digit19 >> >>
    [] c = "d" -> << << {"3"}, {"0", "1"} >>, << {"1", "2"}, Digit >>,
                     << {"0"}, Digit19 >>, << Digit19 >>, << {" "}, Digit19 >> >>
    [] c = "H" -> << << {"2"}, {"0", "1", "2", "3"} >>, << {"0", "1"}, Digit >>, << Digit >> >>
    [] c = "M" -> << << {"0", "1", "2", "3", "4", "5"}, Digit >>, << Digit >> >>
    [] c = "S" -> << << {"6"}, {"0", "1"} >>,
                     << {"0", "1", "2", "3", "4", "5"}, Digit >>, << Digit >> >>

\* the format compiled: directives, runs of blanks (\s+) and literal characters
RECURSIVE Pattern(_)
Pattern(fmt) ==
  IF fmt = <<>> THEN <<>>
  ELSE IF fmt[1] = "%" THEN
    << [kind |-> "dir", c |-> fmt[2]] >> \o Pattern(SubSeq(fmt, 3, Len(fmt)))
  ELSE IF fmt[1] \in Whitespace THEN
    IF Len(fmt) > 1 /\ fmt[2] \in Whitespace
    THEN Pattern(SubSeq(fmt, 2, Len(fmt)))
    ELSE << [kind |-> "ws", c |-> " "] >> \o Pattern(SubSeq(fmt, 2, Len(fmt)))
  ELSE << [kind |-> "lit", c |-> fmt[1]] >> \o Pattern(SubSeq(fmt, 2, Len(fmt)))

NoMatch == [ok |-> FALSE, end |-> 0, caps |-> <<>>]

AltFits(alt, s, pos) ==
  /\ pos + Len(alt) - 1 <= Len(s)
  /\ \A j \in 1..Len(alt) : s[pos + j - 1] \in alt[j]

\* length of the run of blanks of s that starts at pos
RECURSIVE WsRun(_, _)
WsRun(s, pos) ==
  IF pos <= Len(s) /\ s[pos] \in Whitespace THEN 1 + WsRun(s, pos + 1) ELSE 0

\* the pattern from token k on, matched against s from pos on
RECURSIVE Match(_, _, _, _)
RECURSIVE TryAlts(_, _, _, _, _)
RECURSIVE TryWs(_, _, _, _, _)
Match(toks, k, s, pos) ==
  IF k > Len(toks) THEN [ok |-> TRUE, end |-> pos, caps |-> <<>>]
  ELSE IF toks[k].kind = "lit" THEN
    IF pos <= Len(s) /\ s[pos] = toks[k].c THEN Match(toks, k + 1, s, pos + 1) ELSE NoMatch
  ELSE IF toks[k].kind = "ws" THEN TryWs(toks, k, s, pos, WsRun(s, pos))
  ELSE TryAlts(toks, k, s, pos, 1)

TryAlts(toks, k, s, pos, a) ==
  LET alts == DirectiveAlts(toks[k].c) IN
  IF a > Len(alts) THEN NoMatch
  ELSE IF ~AltFits(alts[a], s, pos) THEN TryAlts(toks, k, s, pos, a + 1)
  ELSE LET r == Match(toks, k + 1, s, pos + Len(alts[a])) IN
       IF r.ok
       THEN [r EXCEPT !.caps = << SubSeq(s, pos, pos + Len(alts[a]) - 1) >> \o r.caps]
       ELSE TryAlts(toks, k, s, pos, a + 1)

TryWs(toks, k, s, pos, n) ==
  IF n < 1 THEN NoMatch
  ELSE LET r == Match(toks, k + 1, s, pos + n) IN
       IF r.ok THEN r ELSE TryWs(toks, k, s, pos, n - 1)

IsLeap(y) == (y % 4 = 0 /\ y % 100 # 0) \/ y % 400 = 0

DaysInMonth(y, m) ==
  IF m = 2 THEN (IF IsLeap(y) THEN 29 ELSE 28)
  ELSE IF m \in {4, 6, 9, 11} THEN 30 ELSE 31

\* the fields a match found; a field the format does not name keeps its default
Fields(caps) ==
  [Y |-> ToInt(caps[1]), m |-> ToInt(caps[2]), d |-> ToInt(caps[3]),
   H |-> IF Len(caps) > 3 THEN ToInt(caps[4]) ELSE 0,
   M |-> IF Len(caps) > 3 THEN ToInt(caps[5]) ELSE 0,
   S |-> IF Len(caps) > 3 THEN ToInt(caps[6]) ELSE 0]

ValidDateTime(t) ==
  /\ t.Y >= 1
  /\ t.d <= DaysInMonth(t.Y, t.m)
  /\ t.S <= 59

\* an x-value of the request: a string (text) or a JSON number
IsStr(v) == v.kind = "str"

\* strptime(d, fmt): [err |-> "none", value |-> datetime] or [err |-> exception]
strptime(v, fmt) ==
  IF ~IsStr(v) THEN [err |-> "TypeError"]
  ELSE LET r == Match(Pattern(fmt), 1, v.text, 1) IN
       IF ~r.ok THEN [err |-> "ValueError"]
       ELSE IF r.end # Len(v.text) + 1 THEN [err |-> "ValueError"]
       ELSE IF ~ValidDateTime(Fields(r.caps)) THEN [err |-> "ValueError"]
       ELSE [err |-> "none", value |-> Fields(r.caps)]

(***************************************************************************)
(* matplotlib.dates.date2num and num2date, in whole seconds since the      *)
(* epoch 1970-01-01 (a day number times 86400), and strftime.              *)
(***************************************************************************)
SecondsPerDay == 86400

DaysFromCivil(y0, m, d) ==
  LET y == IF m <= 2 THEN y0 - 1 ELSE y0
      era == y \div 400
      yoe == y - era * 400
      mp == IF m > 2 THEN m - 3 ELSE m + 9
      doy == (153 * mp + 2) \div 5 + d - 1
      doe == yoe * 365 + yoe \div 4 - yoe \div 100 + doy
  IN era * 146097 + doe - 719468

CivilFromDays(z0) ==
  LET z == z0 + 719468
      era == z \div 146097
      doe == z - era * 146097
      yoe == (doe - doe \div 1460 + doe \div 36524 - doe \div 146096) \div 365
      doy == doe - (365 * yoe + yoe \div 4 - yoe \div 100)
      mp == (5 * doy + 2) \div 153
      d == doy - (153 * mp + 2) \div 5 + 1
      m == IF mp < 10 THEN mp + 3 ELSE mp - 9
      y == yoe + era * 400 + (IF m <= 2 THEN 1 ELSE 0)
  IN [Y |-> y, m |-> m, d |-> d]

date2num(t) ==
  DaysFromCivil(t.Y, t.m, t.d) * SecondsPerDay + t.H * 3600 + t.M * 60 + t.S

num2date(n) ==
  LET c == CivilFromDays(n \div SecondsPerDay)
      r == n % SecondsPerDay
  IN [Y |-> c.Y, m |-> c.m, d |-> c.d,
      H |-> r \div 3600, M |-> (r % 3600) \div 60, S |-> r % 60]

\* '%-m/%-d %H:%M' and '%-m/%-d'
X_AXIS_FMT_TIME == << "%", "-", "m", "/", "%", "-", "d", " ", "%", "H", ":", "%", "M" >>

X_AXIS_FMT_DATE == << "%", "-", "m", "/", "%", "-", "d" >>

RECURSIVE strftime(_, _)
strftime(t, fmt) ==
  IF fmt = <<>> THEN <<>>
  ELSE IF fmt[1] = "%" /\ fmt[2] = "-" THEN
    (IF fmt[3] = "m" THEN ToStr(t.m) ELSE ToStr(t.d))
      \o strftime(t, SubSeq(fmt, 4, Len(fmt)))
  ELSE IF fmt[1] = "%" THEN
    (IF fmt[2] = "H" THEN Pad2(t.H) ELSE Pad2(t.M))
      \o strftime(t, SubSeq(fmt, 3, Len(fmt)))
  ELSE << fmt[1] >> \o strftime(t, SubSeq(fmt, 2, Len(fmt)))

(***************************************************************************)
(* DateParser: one flag, dates_only, False after construction.             *)
(***************************************************************************)
\* parse with the retry but without keeping the flag: each element is probed anew
RECURSIVE parse_flag_not_kept(_, _)
parse_flag_not_kept(dates_only, d) ==
  IF dates_only THEN
    [res |-> strptime(d, FMT_DATE), dates_only |-> FALSE, tried |-> << "date" >>]
  ELSE
    LET r == strptime(d, FMT_DATETIME) IN
    IF r.err = "ValueError" THEN
      LET again == parse_flag_not_kept(TRUE, d) IN
      [again EXCEPT !.tried = << "datetime" >> \o again.tried]
    ELSE [res |-> r, dates_only |-> FALSE, tried |-> << "datetime" >>]

\* parse that sets the flag and lets the ValueError go instead of trying again
parse_no_retry(dates_only, d) ==
  IF dates_only THEN
    [res |-> strptime(d, FMT_DATE), dates_only |-> TRUE, tried |-> << "date" >>]
  ELSE
    LET r == strptime(d, FMT_DATETIME) IN
    [res |-> r, dates_only |-> r.err = "ValueError", tried |-> << "datetime" >>]

\* DateParser.parse(d) with the flag as it stands: the outcome, the flag
\* afterwards, and the formats tried on d, in order
RECURSIVE parse(_, _)
parse(dates_only, d) ==
  IF dates_only THEN
    [res |-> strptime(d, FMT_DATE), dates_only |-> TRUE, tried |-> << "date" >>]
  ELSE
    LET r == strptime(d, FMT_DATETIME) IN
    IF r.err = "ValueError" THEN
      LET again == parse(TRUE, d) IN
      [again EXCEPT !.tried = << "datetime" >> \o again.tried]
    ELSE [res |-> r, dates_only |-> FALSE, tried |-> << "datetime" >>]

\* the list comprehension of generate_graph over a fresh DateParser, from
\* element i on: the numbers so far, the flag, and the exception that ended it
RECURSIVE ParseFrom(_, _, _, _)
ParseFrom(xs, i, dates_only, acc) ==
  IF i > Len(xs) THEN [err |-> "none", xaxis |-> acc, dates_only |-> dates_only]
  ELSE LET p == parse(dates_only, xs[i]) IN
       IF p.res.err # "none"
       THEN [err |-> p.res.err, xaxis |-> acc, dates_only |-> p.dates_only]
       ELSE ParseFrom(xs, i + 1, p.dates_only, Append(acc, date2num(p.res.value)))

ParseSeries(xs) == ParseFrom(xs, 1, FALSE, <<>>)

(***************************************************************************)
(* WeekdayDateFormatter.                                                   *)
(***************************************************************************)
\* list[ind] of Python: negative indices count from the end
ListIndex(list, ind) ==
  IF 0 <= ind /\ ind < Len(list) THEN [err |-> "none", value |-> list[ind + 1]]
  ELSE IF ind < 0 /\ -ind <= Len(list)
  THEN [err |-> "none", value |-> list[Len(list) + ind + 1]]
  ELSE [err |-> "IndexError"]

\* WeekdayDateFormatter(dates, fmt)
WeekdayDateFormatter(dates, fmt) ==
  [dates |-> [i \in 1..Len(dates) |-> num2date(dates[i])], fmt |-> fmt]

\* int(np.round(x)) for x = x2 / 2: halves go to the even neighbour
NpRound(x2) ==
  IF x2 % 2 = 0 THEN x2 \div 2
  ELSE IF (x2 \div 2) % 2 = 0 THEN x2 \div 2 ELSE x2 \div 2 + 1

\* __call__ with the upper bound tested by > instead of >=
FormatterCall_off_by_one(self, x2) ==
  LET ind == NpRound(x2) IN
  IF ind > Len(self.dates) \/ ind < 0 THEN [err |-> "none", label |-> <<>>]
  ELSE LET e == ListIndex(self.dates, ind) IN
       IF e.err # "none" THEN [err |-> e.err]
       ELSE [err |-> "none", label |-> strftime(e.value, self.fmt)]

\* WeekdayDateFormatter.__call__(x) for x = x2 / 2
FormatterCall(self, x2) ==
  LET ind == NpRound(x2) IN
  IF ind >= Len(self.dates) \/ ind < 0 THEN [err |-> "none", label |-> <<>>]
  ELSE LET e == ListIndex(self.dates, ind) IN
       IF e.err # "none" THEN [err |-> e.err]
       ELSE [err |-> "none", label |-> strftime(e.value, self.fmt)]

(***************************************************************************)
(* generate_graph.                                                         *)
(***************************************************************************)
\* x_axis_fmt, chosen by the parser's flag after the whole series
XAxisFmt(dates_only) == IF dates_only THEN X_AXIS_FMT_DATE ELSE X_AXIS_FMT_TIME

\* base handed to matplotlib.ticker.IndexLocator: len(xaxis) // 5 - 1
LocatorBase(n) == n \div 5 - 1

\* IndexLocator.tick_values is np.arange(vmin + offset, vmax + 1, base) over the
\* data interval.  With points plotted at 0..n-1 the interval is [0, n-1]: a
\* positive base gives the ticks, a negative base gives none, and base 0 has no
\* length.  With no point plotted the interval is (inf, -inf), with no length
\* either.  arange reports a length it cannot compute as OverflowError or as
\* ValueError, depending on the numpy build.
LocatorOutcomes(n, base) ==
  IF n = 0 \/ base = 0 THEN {"OverflowError", "ValueError"} ELSE {"ticks"}

\* ax.plot(graph['xaxis'], graph['yaxis']) of the fallback: strings are plotted
\* as categories; a series that mixes strings and numbers is refused by the
\* category converter of some matplotlib versions
MixedKinds(xs) ==
  /\ \E i \in 1..Len(xs) : IsStr(xs[i])
  /\ \E i \in 1..Len(xs) : ~IsStr(xs[i])

FallbackPlotOutcomes(xs) ==
  IF MixedKinds(xs) THEN {"plotted", "TypeError"} ELSE {"plotted"}

\* the ways generate_graph(graph) can end: "primary" or "fallback" with a
\* figure returned, or the exception that leaves it
GenerateGraphOutcomes(graph) ==
  LET ps == ParseSeries(graph.xaxis)
      n == Len(ps.xaxis)
      viaFallback ==
        {IF o = "plotted" THEN "fallback" ELSE o : o \in FallbackPlotOutcomes(graph.xaxis)}
  IN
  IF ps.err = "ValueError" THEN viaFallback
  ELSE IF ps.err # "none" THEN {ps.err}
  ELSE UNION { IF o = "ticks" THEN {"primary"}
               ELSE IF o = "ValueError" THEN viaFallback
               ELSE {o} : o \in LocatorOutcomes(n, LocatorBase(n)) }

(***************************************************************************)
(* Inputs: the x-values the series are built from.                         *)
(***************************************************************************)
Str(t) == [kind |-> "str", text |-> t]

Num(n) == [kind |-> "num", n |-> n]

\* "2024-01-01 10:00:00"
X_TIMESTAMP ==
  Str(<< "2", "0", "2", "4", "-", "0", "1", "-", "0", "1", " ",
         "1", "0", ":", "0", "0", ":", "0", "0" >>)

\* "2024-01-02"
X_DATE == Str(<< "2", "0", "2", "4", "-", "0", "1", "-", "0", "2" >>)

\* "not-a-date"
X_TEXT == Str(<< "n", "o", "t", "-", "a", "-", "d", "a", "t", "e" >>)

\* "2024-02-30": shaped like a date, but no day of the calendar
X_NODAY == Str(<< "2", "0", "2", "4", "-", "0", "2", "-", "3", "0" >>)

\* 1: a JSON number
X_NUMBER == Num(1)

SampleX == {X_TIMESTAMP, X_DATE, X_TEXT, X_NODAY, X_NUMBER}

\* "2024-03-DD 09:30:00" for day i
Stamp(i) ==
  Str(<< "2", "0", "2", "4", "-", "0", "3", "-" >> \o Pad2(i)
        \o << " ", "0", "9", ":", "3", "0", ":", "0", "0" >>)

\* every series of at most MaxLen sample values
ShortSeries == UNION {[1..n -> SampleX] : n \in 0..MaxLen}

\* series of MaxLen + 1 to MaxLong consecutive timestamps
LongSeries == {[i \in 1..n |-> Stamp(i)] : n \in (MaxLen + 1)..MaxLong}

\* the graph objects that pass validate_data: one y-value for each x-value
GraphOf(xs) == [xaxis |-> xs, yaxis |-> [i \in 1..Len(xs) |-> i]]

Graphs == {GraphOf(xs) : xs \in ShortSeries \cup LongSeries}

\* the arguments the axis hands to the formatter, in halves: -2 .. n + 1
FormatterArgs(n) == (-4)..(2 * n + 2)

(***************************************************************************)
(* State.                                                                  *)
(***************************************************************************)
VARIABLES
  \* generate_graph, followed statement by statement
  graph,        \* its argument
  gpc,          \* where it stands
  idx,          \* the element of graph.xaxis the comprehension parses next
  dates_only,   \* DateParser.dates_only
  xaxis,        \* the numbers parsed so far
  tried,        \* the formats tried on the element parsed last
  raised,       \* the exception raised last ("none": none)
  path,         \* "primary" or "fallback" once the figure is plotted
  base,         \* << the base handed to IndexLocator >> (<<>>: no locator built)
  formatter,    \* << the WeekdayDateFormatter >> (<<>>: not built)
  called,       \* << the last call of the formatter: [x2, res] >> (<<>>: no call)
  \* lambda_handler and the world around it
  store,        \* keys of the objects in the bucket
  pc,           \* where the current invocation stands
  data,         \* its argument
  url,          \* its local variable url: << text >> (<<>>: None or unbound)
  calls,        \* the calls it has made, in order: [op, key, res]
  outcome,      \* how it ended: [kind |-> "return", value] or [kind |-> "raise", exc]
  sent,         \* the notification payloads accepted by the dispatcher
  uploaded,     \* [symbol, date, url] of the invocations that uploaded so far
  prior,        \* << the URL uploaded for data's symbol and date before this invocation >>
  invocations   \* number of invocations started

gvars == << graph, gpc, idx, dates_only, xaxis, tried, raised, path, base, formatter, called >>

hvars == << store, pc, data, url, calls, outcome, sent, uploaded, prior, invocations >>

vars == << gvars, hvars >>

(***************************************************************************)
(* generate_graph, one action per statement group.                         *)
(***************************************************************************)
GraphIdle ==
  /\ graph = GraphOf(<<>>)
  /\ gpc = "idle"
  /\ idx = 1
  /\ dates_only = FALSE
  /\ xaxis = <<>>
  /\ tried = <<>>
  /\ raised = "none"
  /\ path = "none"
  /\ base = <<>>
  /\ formatter = <<>>
  /\ called = <<>>

\* lines 57-67: the call, the labels, the figure, dp = DateParser()
GraphEntered(g) ==
  /\ graph = g
  /\ gpc = "parse"
  /\ idx = 1
  /\ dates_only = FALSE
  /\ xaxis = <<>>
  /\ tried = <<>>
  /\ raised = "none"
  /\ path = "none"
  /\ base = <<>>
  /\ formatter = <<>>
  /\ called = <<>>

\* lines 68-71: one element of the comprehension
ParseNext ==
  /\ gpc = "parse"
  /\ idx <= Len(graph.xaxis)
  /\ LET p == parse(dates_only, graph.xaxis[idx]) IN
     /\ dates_only' = p.dates_only
     /\ tried' = p.tried
     /\ raised' = p.res.err
     /\ IF p.res.err = "none"
        THEN /\ xaxis' = Append(xaxis, date2num(p.res.value))
             /\ idx' = idx + 1
             /\ gpc' = "parse"
        ELSE /\ UNCHANGED << xaxis, idx >>
             /\ gpc' = IF p.res.err = "ValueError" THEN "except" ELSE "raised"
  /\ UNCHANGED << graph, path, base, formatter, called, hvars >>

\* lines 73-88: the format, the formatter, the locator, the plot
BuildAxis ==
  /\ gpc = "parse"
  /\ idx > Len(graph.xaxis)
  /\ formatter' = << WeekdayDateFormatter(xaxis, XAxisFmt(dates_only)) >>
  /\ base' = << LocatorBase(Len(xaxis)) >>
  /\ gpc' = "autofmt"
  /\ UNCHANGED << graph, idx, dates_only, xaxis, tried, raised, path, called, hvars >>

\* line 89: fig.autofmt_xdate() asks the locator for the tick labels to rotate
AutofmtXdate ==
  /\ gpc = "autofmt"
  /\ \E o \in LocatorOutcomes(Len(xaxis), base[1]) :
       /\ raised' = IF o = "ticks" THEN "none" ELSE o
       /\ path' = IF o = "ticks" THEN "primary" ELSE path
       /\ gpc' = IF o = "ticks" THEN "finish"
                 ELSE IF o = "ValueError" THEN "except" ELSE "raised"
  /\ UNCHANGED << graph, idx, dates_only, xaxis, tried, base, formatter, called, hvars >>

\* lines 90-93: except ValueError
Fallback ==
  /\ gpc = "except"
  /\ \E o \in FallbackPlotOutcomes(graph.xaxis) :
       /\ raised' = IF o = "plotted" THEN "none" ELSE o
       /\ path' = IF o = "plotted" THEN "fallback" ELSE path
       /\ gpc' = IF o = "plotted" THEN "finish" ELSE "raised"
  /\ UNCHANGED << graph, idx, dates_only, xaxis, tried, base, formatter, called, hvars >>

\* lines 95-100: labels, y locator, layout, return fig
Finish ==
  /\ gpc = "finish"
  /\ gpc' = "returned"
  /\ UNCHANGED << graph, idx, dates_only, xaxis, tried, raised, path, base, formatter,
                  called, hvars >>

\* the formatter, once built, is asked for the label of x = x2 / 2
CallFormatter ==
  /\ formatter # <<>>
  /\ \E x2 \in FormatterArgs(Len(formatter[1].dates)) :
       called' = << [x2 |-> x2, res |-> FormatterCall(formatter[1], x2)] >>
  /\ UNCHANGED << graph, gpc, idx, dates_only, xaxis, tried, raised, path, base,
                  formatter, hvars >>

NextGraph == ParseNext \/ BuildAxis \/ AutofmtXdate \/ Fallback \/ Finish \/ CallFormatter

(***************************************************************************)
(* validate_data.  A dict is a record with the set of its keys; the value  *)
(* of a key it does not hold is never read.                                *)
(***************************************************************************)
MSG_GRAPH == "Missing 'graph' field"

MSG_XAXIS == "Missing \"xaxis\" in data"

MSG_YAXIS == "Missing \"yaxis\" in data"

MSG_DIMENSION == "xaxis and yaxis must have the same dimension"

\* validate_data without the comparison of the lengths
validate_data_no_dimension(d) ==
  IF "graph" \notin d.keys THEN MSG_GRAPH
  ELSE IF "xaxis" \notin d.graph.keys THEN MSG_XAXIS
  ELSE IF "yaxis" \notin d.graph.keys THEN MSG_YAXIS
  ELSE "ok"

\* validate_data comparing the lengths with < instead of !=
validate_data_less_than(d) ==
  IF "graph" \notin d.keys THEN MSG_GRAPH
  ELSE IF "xaxis" \notin d.graph.keys THEN MSG_XAXIS
  ELSE IF "yaxis" \notin d.graph.keys THEN MSG_YAXIS
  ELSE IF Len(d.graph.xaxis) < Len(d.graph.yaxis) THEN MSG_DIMENSION
  ELSE "ok"

\* "ok" when validate_data returns, else the message of the ValueError it raises
validate_data(d) ==
  IF "graph" \notin d.keys THEN MSG_GRAPH
  ELSE IF "xaxis" \notin d.graph.keys THEN MSG_XAXIS
  ELSE IF "yaxis" \notin d.graph.keys THEN MSG_YAXIS
  ELSE IF Len(d.graph.xaxis) # Len(d.graph.yaxis) THEN MSG_DIMENSION
  ELSE "ok"

(***************************************************************************)
(* Keys, URLs and the bucket.                                              *)
(***************************************************************************)
\* GRAPH_DESTINATION_BUCKET
DESTINATION_BUCKET == << "b", "k", "t" >>

URL_PREFIX ==
  << "h", "t", "t", "p", "s", ":", "/", "/", "s", "3", ".", "a", "m", "a", "z", "o", "n",
     "a", "w", "s", ".", "c", "o", "m", "/" >>

get_url(bucket_name, key_name) == URL_PREFIX \o bucket_name \o << "/" >> \o key_name

\* re.sub(r"\s+", '-', s)
RECURSIVE ReSubWhitespace(_)
ReSubWhitespace(s) ==
  IF s = <<>> THEN <<>>
  ELSE IF s[1] \in Whitespace
  THEN << "-" >> \o ReSubWhitespace(SubSeq(s, 1 + WsRun(s, 1), Len(s)))
  ELSE << s[1] >> \o ReSubWhitespace(Tail(s))

\* "{}-{}.png".format(data['symbol'], data['date']) with blanks replaced
KeyName(d) ==
  ReSubWhitespace(d.symbol \o << "-" >> \o d.date \o << ".", "p", "n", "g" >>)

StartsWith(k, prefix) ==
  Len(prefix) <= Len(k) /\ SubSeq(k, 1, Len(prefix)) = prefix

\* the order of str, and of the keys in a listing
RECURSIVE TextLess(_, _)
TextLess(a, b) ==
  IF a = <<>> THEN b # <<>>
  ELSE IF b = <<>> THEN FALSE
  ELSE IF a[1] = b[1] THEN TextLess(Tail(a), Tail(b))
  ELSE Ord(a[1]) < Ord(b[1])

RECURSIVE SortedKeys(_)
SortedKeys(S) ==
  IF S = {} THEN <<>>
  ELSE LET least == CHOOSE k \in S : \A o \in S \ {k} : TextLess(k, o)
       IN << least >> \o SortedKeys(S \ {least})

\* list(bucket.objects.filter(Prefix=prefix)): the keys with the prefix, in order
ObjectsFilter(objects, prefix) ==
  SortedKeys({k \in objects : StartsWith(k, prefix)})

\* line 134: objs and objs[0].key == key_name
FoundExisting(objs, key_name) == objs # <<>> /\ objs[1] = key_name

(***************************************************************************)
(* Requests.                                                               *)
(***************************************************************************)
\* a graph dict; the values of absent keys are written <<>>
GraphDict(keys, xs, ys) == [keys |-> keys, xaxis |-> xs, yaxis |-> ys]

ValidGraph(xs) == GraphDict({"xaxis", "yaxis"}, xs, [i \in 1..Len(xs) |-> i])

\* the graph objects of the handler's requests: three that validate_data
\* refuses, and series of 0, 1, 1, 1, 2, 5 and 10 points
HandlerGraphs ==
  { GraphDict({"xaxis"}, << X_TIMESTAMP >>, <<>>),
    GraphDict({"yaxis"}, <<>>, << 1 >>),
    GraphDict({"xaxis", "yaxis"}, << X_TIMESTAMP, X_DATE >>, << 1 >>),
    ValidGraph(<<>>),
    ValidGraph(<< X_TIMESTAMP >>),
    ValidGraph(<< X_TEXT >>),
    ValidGraph(<< X_NUMBER >>),
    ValidGraph(<< X_TEXT, X_NUMBER >>),
    ValidGraph([i \in 1..5 |-> Stamp(i)]),
    ValidGraph([i \in 1..10 |-> Stamp(i)]) }

\* symbol and date: two of the three pairs share a key
SymbolDates ==
  { << << "A" >>, << "1" >> >>,
    << << "A", " ", "\t", "B" >>, << "1" >> >>,
    << << "A" >>, << "B", " ", "1" >> >> }

CHANNEL == << "#", "a" >>

TEXT == << "k" >>

\* destination absent, without slack_channel, with it; message_text present or not
Destinations ==
  { [keys |-> {}, destination |-> {}],
    [keys |-> {"destination"}, destination |-> {}],
    [keys |-> {"destination", "message_text"}, destination |-> {"slack_channel"}],
    [keys |-> {"destination"}, destination |-> {"slack_channel"}] }

Request(g, sd, dest) ==
  [keys |-> dest.keys \cup {"graph", "symbol", "date"},
   graph |-> g, symbol |-> sd[1], date |-> sd[2],
   destination |-> [keys |-> dest.destination, slack_channel |-> CHANNEL],
   message_text |-> TEXT]

NoGraph(r) == [r EXCEPT !.keys = @ \ {"graph"}, !.graph = GraphDict({}, <<>>, <<>>)]

Requests ==
  LET full == {Request(g, sd, dest) : g \in HandlerGraphs, sd \in SymbolDates,
                                      dest \in Destinations}
  IN full \cup {NoGraph(r) : r \in {q \in full : q.graph = ValidGraph(<<>>)}}

\* objects the bucket may hold before the first invocation: one whose key only
\* starts with a key of the handler, and one that is a key of the handler
KEY_A1 == << "A", "-", "1", ".", "p", "n", "g" >>

InitialObjects == { KEY_A1 \o << ".", "b", "a", "k" >>, KEY_A1 }

(***************************************************************************)
(* lambda_handler, one action per statement group.                         *)
(***************************************************************************)
NoOutcome == [kind |-> "none", exc |-> "none", msg |-> "", value |-> <<>>]

Raise(exc, msg) == [kind |-> "raise", exc |-> exc, msg |-> msg, value |-> <<>>]

Return(v) == [kind |-> "return", exc |-> "none", msg |-> "", value |-> v]

HandlerIdle ==
  /\ pc = "idle"
  /\ data = Request(ValidGraph(<<>>), << << "A" >>, << "1" >> >>, [keys |-> {}, destination |-> {}])
  /\ url = <<>>
  /\ calls = <<>>
  /\ outcome = NoOutcome
  /\ sent = <<>>
  /\ uploaded = {}
  /\ prior = <<>>
  /\ invocations = 0

\* the URL uploaded earlier for the symbol and date of d
PriorUrl(d) ==
  LET us == {u \in uploaded : u.symbol = d.symbol /\ u.date = d.date}
  IN IF us = {} THEN <<>> ELSE << (CHOOSE u \in us : TRUE).url >>

\* lines 124-125: the handler is invoked
Invoke ==
  /\ pc = "idle"
  /\ invocations < MaxInvocations
  /\ \E d \in Requests :
       /\ data' = d
       /\ prior' = PriorUrl(d)
  /\ pc' = "validate"
  /\ url' = <<>>
  /\ calls' = <<>>
  /\ outcome' = NoOutcome
  /\ sent' = <<>>
  /\ invocations' = invocations + 1
  /\ UNCHANGED << store, uploaded, gvars >>

\* line 126: validate_data(data)
Validate ==
  /\ pc = "validate"
  /\ IF validate_data(data) = "ok"
     THEN pc' = "list" /\ UNCHANGED outcome
     ELSE pc' = "idle" /\ outcome' = Raise("ValueError", validate_data(data))
  /\ UNCHANGED << store, data, url, calls, sent, uploaded, prior, invocations, gvars >>

\* what lines 133-137 do with the listing: the next statement and url
AfterListing(objs, key_name) ==
  IF FoundExisting(objs, key_name)
  THEN [pc |-> "notify", url |-> << get_url(DESTINATION_BUCKET, key_name) >>]
  ELSE [pc |-> "render", url |-> <<>>]

Call(op, d, res) == [op |-> op, key |-> KeyName(d), res |-> res]

\* lines 128-137: the key, the listing, the existence check
ListObjects ==
  /\ pc = "list"
  /\ \/ /\ LET a == AfterListing(ObjectsFilter(store, KeyName(data)), KeyName(data))
           IN pc' = a.pc /\ url' = a.url
        /\ calls' = Append(calls, Call("list", data, "ok"))
        /\ UNCHANGED outcome
     \/ /\ pc' = "idle"
        /\ calls' = Append(calls, Call("list", data, "ClientError"))
        /\ outcome' = Raise("ClientError", "")
        /\ UNCHANGED url
  /\ UNCHANGED << store, data, sent, uploaded, prior, invocations, gvars >>

\* line 138: fig = generate_graph(data['graph'])
Render ==
  /\ pc = "render"
  /\ \E o \in GenerateGraphOutcomes(data.graph) :
       /\ calls' = Append(calls, Call("generate_graph", data, o))
       /\ IF o \in {"primary", "fallback"}
          THEN pc' = "upload" /\ UNCHANGED outcome
          ELSE pc' = "idle" /\ outcome' = Raise(o, "")
  /\ UNCHANGED << store, data, url, sent, uploaded, prior, invocations, gvars >>

\* the except clause logging the error without the raise
AfterPut_swallowed(r, key_name) ==
  IF r = "ok"
  THEN [pc |-> "notify", url |-> << get_url(DESTINATION_BUCKET, key_name) >>, exc |-> "none"]
  ELSE [pc |-> "notify", url |-> <<>>, exc |-> "none"]

\* what lines 142-162 do with the result r of put_object: the next statement,
\* url, and the exception that leaves the handler
AfterPut(r, key_name) ==
  IF r = "ok"
  THEN [pc |-> "notify", url |-> << get_url(DESTINATION_BUCKET, key_name) >>, exc |-> "none"]
  ELSE [pc |-> "idle", url |-> <<>>, exc |-> r]

\* lines 140-162: savefig, put_object, url
Upload ==
  /\ pc = "upload"
  /\ \E r \in {"ok", "ClientError", "BotoCoreError"} :
       LET a == AfterPut(r, KeyName(data)) IN
       /\ calls' = Append(calls, Call("put_object", data, r))
       /\ pc' = a.pc
       /\ url' = a.url
       /\ outcome' = IF a.exc = "none" THEN outcome ELSE Raise(a.exc, "")
       /\ store' = IF r = "ok" THEN store \cup {KeyName(data)} ELSE store
       /\ uploaded' =
            IF r = "ok" /\ prior = <<>>
            THEN uploaded \cup {[symbol |-> data.symbol, date |-> data.date,
                                 url |-> get_url(DESTINATION_BUCKET, KeyName(data))]}
            ELSE uploaded
  /\ UNCHANGED << data, sent, prior, invocations, gvars >>

\* lines 164-166: whether a notification is asked for
WantsNotification(d) ==
  "destination" \in d.keys /\ "slack_channel" \in d.destination.keys

\* lines 167-176: slack_message_payload
SlackMessagePayload(d, u) ==
  [channel |-> d.destination.slack_channel, text |-> d.message_text,
   fallback |-> d.message_text, image_url |-> u]

\* lines 164-186: the notification
Notify ==
  /\ pc = "notify"
  /\ IF ~WantsNotification(data)
     THEN pc' = "return" /\ UNCHANGED << calls, sent, outcome >>
     ELSE IF "message_text" \notin data.keys
     THEN pc' = "idle" /\ outcome' = Raise("KeyError", "message_text") /\ UNCHANGED << calls, sent >>
     ELSE \/ /\ calls' = Append(calls, Call("invoke", data, "ok"))
             /\ sent' = Append(sent, SlackMessagePayload(data, url))
             /\ pc' = "return"
             /\ UNCHANGED outcome
          \/ /\ calls' = Append(calls, Call("invoke", data, "ClientError"))
             /\ pc' = "idle"
             /\ outcome' = Raise("ClientError", "")
             /\ UNCHANGED sent
  /\ UNCHANGED << store, data, url, uploaded, prior, invocations, gvars >>

\* line 188: return url
ReturnUrl ==
  /\ pc = "return"
  /\ outcome' = Return(url)
  /\ pc' = "idle"
  /\ UNCHANGED << store, data, url, calls, sent, uploaded, prior, invocations, gvars >>

Init ==
  /\ GraphIdle
  /\ HandlerIdle
  /\ store \in SUBSET InitialObjects

Next == Invoke \/ Validate \/ ListObjects \/ Render \/ Upload \/ Notify \/ ReturnUrl

Spec == Init /\ [][Next]_vars

(***************************************************************************)
(* generate_graph on its own: every graph that passes validate_data.       *)
(***************************************************************************)
InitGraph ==
  /\ \E g \in Graphs : GraphEntered(g)
  /\ HandlerIdle
  /\ store = {}

SpecGraph == InitGraph /\ [][NextGraph]_vars

(***************************************************************************)
(* validate_data on its own: the handler's line 126 on every shape of      *)
(* request, with series of up to MaxLen values.                            *)
(***************************************************************************)
ValidateSeries == UNION {[1..n -> {X_TIMESTAMP, X_NUMBER}] : n \in 0..MaxLen}

ValidateGraphs ==
  {GraphDict(ks, IF "xaxis" \in ks THEN xs ELSE <<>>,
                 IF "yaxis" \in ks THEN [i \in 1..n |-> i] ELSE <<>>) :
     ks \in SUBSET {"xaxis", "yaxis"}, xs \in ValidateSeries, n \in 0..MaxLen}

ValidateInputs ==
  LET sd == << << "A" >>, << "1" >> >>
      dest == [keys |-> {}, destination |-> {}]
  IN {Request(g, sd, dest) : g \in ValidateGraphs}
       \cup {NoGraph(Request(ValidGraph(<<>>), sd, dest))}

InitValidate ==
  /\ GraphIdle
  /\ store = {}
  /\ pc = "validate"
  /\ data \in ValidateInputs
  /\ url = <<>>
  /\ calls = <<>>
  /\ outcome = NoOutcome
  /\ sent = <<>>
  /\ uploaded = {}
  /\ prior = <<>>
  /\ invocations = 1

SpecValidate == InitValidate /\ [][Validate]_vars

(***************************************************************************)
(* Properties.                                                             *)
(***************************************************************************)
MatchesTimestamp(v) == strptime(v, FMT_DATETIME).err = "none"

MatchesDate(v) == strptime(v, FMT_DATE).err = "none"

\* the comprehension of lines 68-71 ended in the except clause
ParseFatal == gpc = "except" /\ idx <= Len(graph.xaxis)

\* the comprehension of lines 68-71 ran to its end
ParseComplete == gpc # "parse" /\ idx > Len(graph.xaxis)

\* C1: generate_graph never raises for a graph that passes validate_data: it
\* ends on the primary or on the fallback path and returns a figure.
C1_GenerateGraphNeverRaises == gpc # "raised"

\* the same for series of well-formed timestamps only: violated by the series
\* of 5 to 9 entries on the numpy builds whose arange raises OverflowError
GenerateGraphNeverRaisesOnTimestamps ==
  (\A i \in 1..Len(graph.xaxis) : MatchesTimestamp(graph.xaxis[i])) /\ Len(graph.xaxis) > 0
    => gpc # "raised"

\* C9: the base handed to the index locator on the primary path is a positive
\* integer for every series length.
C9_StridePositive == base # <<>> => base[1] >= 1

\* C5 as stated: a fatal parse error only when some element matches neither the
\* timestamp format nor the date-only format.
C5_FatalOnlyWhenNeitherFormat ==
  ParseFatal =>
    \E i \in 1..Len(graph.xaxis) :
      ~MatchesTimestamp(graph.xaxis[i]) /\ ~MatchesDate(graph.xaxis[i])

\* some element fails the date-only format and either fails the timestamp
\* format too or comes after an element that fails the timestamp format
FailsInOrder(xs) ==
  \E i \in 1..Len(xs) :
    /\ IsStr(xs[i]) /\ ~MatchesDate(xs[i])
    /\ \A j \in 1..i : IsStr(xs[j])
    /\ \E j \in 1..i : ~MatchesTimestamp(xs[j])

\* C5 amended: parsing a series of strings raises the fatal parse error exactly
\* when some element fails the date-only format and either fails the timestamp
\* format too or comes after an element that fails the timestamp format.
C5_FatalExactlyWhenOrderFails ==
  /\ ParseFatal => FailsInOrder(graph.xaxis)
  /\ ParseComplete => ~FailsInOrder(graph.xaxis)

\* a date-only entry followed by a timestamp entry: each matches a format, and
\* the series is fatal
C5_Witness ==
  /\ ParseFatal
  /\ Len(graph.xaxis) = 2
  /\ MatchesDate(graph.xaxis[1])
  /\ MatchesTimestamp(graph.xaxis[2])

\* the elements the parser has been given so far
Given == 1..(IF gpc = "parse" \/ idx > Len(graph.xaxis) THEN idx - 1 ELSE idx)

FailsTimestamp(v) == strptime(v, FMT_DATETIME).err = "ValueError"

\* timestamp entries, then one or more date-only entries
TimestampsThenDates(xs) ==
  \E k \in 0..(Len(xs) - 1) :
    /\ \A i \in 1..k : MatchesTimestamp(xs[i])
    /\ \A i \in (k + 1)..Len(xs) : MatchesDate(xs[i])

C6_Mode ==
  /\ gpc = "parse" /\ idx = 1 => ~dates_only
  /\ dates_only <=> \E j \in Given : FailsTimestamp(graph.xaxis[j])
  /\ tried \in {<<>>, << "datetime" >>, << "date" >>, << "datetime", "date" >>}
  /\ TimestampsThenDates(graph.xaxis) /\ gpc # "parse" =>
       /\ ParseComplete
       /\ Len(xaxis) = Len(graph.xaxis)
       /\ dates_only

C6_Step ==
  /\ dates_only => dates_only'
  /\ ~dates_only /\ dates_only' => tried' = << "datetime", "date" >>
  /\ dates_only /\ (idx' # idx \/ (gpc = "parse" /\ gpc' # "parse" /\ idx <= Len(graph.xaxis)))
       => tried' = << "date" >>

\* C6: the mode starts as timestamp, becomes date-only at the first element
\* that fails the timestamp format and never goes back; that element is tried
\* once more, under date-only; timestamp entries followed by date-only entries
\* parse to the end with the mode date-only.
C6_OneWaySwitch == []C6_Mode /\ [][C6_Step]_vars

\* ["2024-01-01 10:00:00", "2024-01-02"] parsed to the end, mode date-only
C6_Witness ==
  /\ graph.xaxis = << X_TIMESTAMP, X_DATE >>
  /\ gpc = "autofmt"
  /\ dates_only
  /\ tried = << "datetime", "date" >>
  /\ Len(xaxis) = 2

\* the label of the i-th x-value, straight from its text
LabelOf(v, dateOnly) ==
  LET t == IF MatchesTimestamp(v) THEN strptime(v, FMT_DATETIME).value
           ELSE strptime(v, FMT_DATE).value
  IN ToStr(t.m) \o << "/" >> \o ToStr(t.d)
       \o (IF dateOnly THEN <<>> ELSE << " " >> \o Pad2(t.H) \o << ":" >> \o Pad2(t.M))

\* C8: the formatter never raises; for an integer index outside 0..N-1 it
\* returns the empty string, and inside it returns the label of the time value
\* at that index.
C8_LabelInRangeOnly ==
  called # <<>> =>
    LET c == called[1]
        n == Len(graph.xaxis)
    IN /\ c.res.err = "none"
       /\ c.x2 % 2 = 0 /\ (c.x2 \div 2 < 0 \/ c.x2 \div 2 >= n) => c.res.label = <<>>
       /\ c.x2 % 2 = 0 /\ 0 <= c.x2 \div 2 /\ c.x2 \div 2 < n =>
            c.res.label = LabelOf(graph.xaxis[c.x2 \div 2 + 1], dates_only)

\* the formatter asked for index N of a series of N >= 1 values
C8_Witness ==
  /\ called # <<>>
  /\ Len(graph.xaxis) >= 1
  /\ called[1].x2 = 2 * Len(graph.xaxis)
  /\ called[1].res.err = "none"
  /\ called[1].res.label = <<>>

\* the request lacks graph, xaxis or yaxis
MissingField(d) ==
  \/ "graph" \notin d.keys
  \/ "xaxis" \notin d.graph.keys
  \/ "yaxis" \notin d.graph.keys

\* all three are there and the lengths differ
DimensionMismatch(d) ==
  ~MissingField(d) /\ Len(d.graph.xaxis) # Len(d.graph.yaxis)

Validated == pc # "validate" /\ invocations > 0

\* C3: validate_data raises a missing-field error exactly when graph, xaxis or
\* yaxis is absent, the dimension error exactly when all three are present and
\* the lengths differ, and returns otherwise; a missing field wins over lengths.
C3_ValidationOutcome ==
  Validated =>
    /\ MissingField(data) <=>
         outcome.exc = "ValueError" /\ outcome.msg \in {MSG_GRAPH, MSG_XAXIS, MSG_YAXIS}
    /\ DimensionMismatch(data) <=>
         outcome.exc = "ValueError" /\ outcome.msg = MSG_DIMENSION
    /\ ~MissingField(data) /\ ~DimensionMismatch(data) <=>
         outcome.kind = "none" /\ pc = "list"
    /\ "graph" \notin data.keys => outcome.msg = MSG_GRAPH
    /\ "graph" \in data.keys /\ "xaxis" \notin data.graph.keys => outcome.msg = MSG_XAXIS

\* xaxis longer than yaxis: the dimension error
C3_Witness ==
  /\ Validated
  /\ Len(data.graph.xaxis) > Len(data.graph.yaxis)
  /\ "yaxis" \in data.graph.keys
  /\ outcome.msg = MSG_DIMENSION

Ops == [i \in 1..Len(calls) |-> calls[i].op]

Ended == pc = "idle" /\ outcome.kind # "none"

\* C4: an invocation whose validation fails ends with the validation error and
\* has made no external call: no listing, rendering, upload or notification.
C4_NoCallWhenInvalid ==
  /\ pc = "validate" => calls = <<>> /\ sent = <<>>
  /\ Validated /\ (MissingField(data) \/ DimensionMismatch(data)) =>
       /\ Ended
       /\ outcome.exc = "ValueError"
       /\ calls = <<>>
       /\ sent = <<>>
       /\ url = <<>>

\* an invocation with lengths that differ, ended
C4_Witness ==
  /\ Ended
  /\ DimensionMismatch(data)
  /\ outcome.exc = "ValueError"
  /\ calls = <<>>

\* the listing of this invocation raised
ListingFailed == \E i \in 1..Len(calls) : calls[i].op = "list" /\ calls[i].res # "ok"

\* C2: once an invocation has uploaded the object of a symbol and date, a
\* later invocation with the same symbol and date (that passes validation and
\* whose listing answers) makes no generate_graph and no put_object call and
\* returns the URL of the upload.
C2_RepeatReturnsUploadedUrl ==
  Ended /\ prior # <<>> /\ validate_data(data) = "ok" /\ ~ListingFailed =>
    /\ \A i \in 1..Len(calls) : calls[i].op \notin {"generate_graph", "put_object"}
    /\ outcome = Return(prior)

\* what holds of a repeat: it neither renders nor uploads, the URL it works
\* with is the URL of the upload, and so is the URL it returns, if it returns
RepeatNeverRenders ==
  prior # <<>> =>
    /\ \A i \in 1..Len(calls) : calls[i].op \notin {"generate_graph", "put_object"}
    /\ url # <<>> => url = prior
    /\ outcome.kind = "return" => outcome.value = prior

\* C7: with destination.slack_channel in the request and the object published
\* or found, the handler returns the URL whatever the notification does.
C7_NotificationNeverSurfaces ==
  Ended /\ WantsNotification(data) /\ url # <<>> => outcome = Return(url)

Count(op) == Cardinality({i \in 1..Len(calls) : calls[i].op = op})

\* C10: a notification goes out only after the listing found the object or
\* put_object returned; its image_url is not null and is the URL the
\* invocation returns; a failed upload is raised, not repeated, and followed by
\* no notification.
C10_NotifyOnlyAfterStored ==
  /\ Count("put_object") <= 1
  /\ \A k \in 1..Len(sent) :
       /\ sent[k].image_url # <<>>
       /\ sent[k].image_url = << get_url(DESTINATION_BUCKET, KeyName(data)) >>
       /\ sent[k].image_url = url
       /\ KeyName(data) \in store
       /\ Ops \in { << "list", "invoke" >>,
                    << "list", "generate_graph", "put_object", "invoke" >> }
       /\ pc \in {"return", "idle"}
       /\ pc = "idle" => outcome = Return(sent[k].image_url)
  /\ "invoke" \in {Ops[i] : i \in 1..Len(Ops)} => url # <<>> /\ KeyName(data) \in store
  /\ \A i \in 1..Len(calls) : calls[i].op = "put_object" /\ calls[i].res # "ok" =>
       /\ i = Len(calls)
       /\ Ended
       /\ outcome = Raise(calls[i].res, "")
       /\ sent = <<>>
       /\ url = <<>>

\* an invocation that uploaded, notified and returned
C10_Witness ==
  /\ Ended
  /\ Ops = << "list", "generate_graph", "put_object", "invoke" >>
  /\ Len(sent) = 1
  /\ outcome = Return(sent[1].image_url)

==========================================================================
